---------------------------- MODULE Spec2Model ----------------------------
(***************************************************************************)
(* State-machine model of the autonomous delivery agent: the grid world    *)
(* (environment.py), the exhaustive searches and the local-search repair   *)
(* (algorithms.py) and the route orchestrator (agent.py).                  *)
(*                                                                         *)
(* Python values are represented as follows.                               *)
(*   - a cell (x, y) is the tuple <<x, y>>;                                *)
(*   - a list is a sequence; Optional[T] is a sequence of length 0 (None)  *)
(*     or 1 (the value), so that None and the empty list stay distinct;    *)
(*   - a number of the form n + sqrt(r) (every priority the searches put   *)
(*     on a heap has this form) is the record [base |-> n, rad |-> r] and  *)
(*     is compared exactly.                                                *)
(***************************************************************************)
EXTENDS Integers, Sequences, FiniteSets, TLC

VARIABLES
    env,      \* the GridEnvironment object
    setup,    \* the grid as it was configured, before any obstacle was moved
    query,    \* the arguments of the search or repair calls under way
    found,    \* what each finished search or repair call returned
    run,      \* the locals of a search call in progress
    passes,   \* how many passes of its while loop that call has made
    agent,    \* the DeliveryAgent object
    frame,    \* the locals of the execute_route call in progress
    repair,   \* the locals of the local-search call in progress
    console,  \* what has been printed
    calls     \* the calls made on the objects so far, constructor first

vars == <<env, setup, query, found, run, passes, agent, frame, repair, console, calls>>

worldVars == <<env, setup>>

searchVars == <<query, found, run, passes>>

agentVars == <<agent, frame, repair, console, calls>>

(***************************************************************************)
(* Python values                                                           *)
(***************************************************************************)
None == <<>>

Some(v) == <<v>>

IsNone(o) == Len(o) = 0

Abs(n) == IF n < 0 THEN -n ELSE n

Max2(a, b) == IF a >= b THEN a ELSE b

Min2(a, b) == IF a <= b THEN a ELSE b

Reverse(s) == [k \in 1..Len(s) |-> s[Len(s) + 1 - k]]

\* list[a:b] of Python with 0-based a, b already clipped by the caller
Slice(s, a, b) == IF b <= a THEN <<>> ELSE SubSeq(s, a + 1, b)

Range(s) == {s[k] : k \in 1..Len(s)}

\* sqrt(a) - sqrt(b) < k, for naturals a, b and an integer k, decided exactly
RootDiffLess(a, b, k) ==
    IF k = 0 THEN a < b
    ELSE IF k > 0
         THEN LET m == a - b - k * k
              IN  m < 0 \/ m * m < 4 * k * k * b
         ELSE LET j == -k
                  m == b - a - j * j
              IN  m > 0 /\ 4 * j * j * a < m * m

\* p < q for numbers base + sqrt(rad)
NumLess(p, q) == RootDiffLess(p.rad, q.rad, q.base - p.base)

IntNum(n) == [base |-> n, rad |-> 0]

(***************************************************************************)
(* environment.py                                                          *)
(***************************************************************************)
UP == <<0, -1>>

DOWN == <<0, 1>>

LEFT == <<-1, 0>>

RIGHT == <<1, 0>>

STAY == <<0, 0>>

OutOfBoundsCost == 999

ObstaclePenalty == 1000

is_within_bounds(e, x, y) == 0 <= x /\ x < e.width /\ 0 <= y /\ y < e.height

get_terrain_cost(e, x, y) ==
    IF ~is_within_bounds(e, x, y) THEN OutOfBoundsCost ELSE e.grid[<<x, y>>]

RECURSIVE PathCostFrom(_, _, _)
PathCostFrom(e, path, k) ==
    IF k > Len(path) THEN 0
    ELSE get_terrain_cost(e, path[k][1], path[k][2]) + PathCostFrom(e, path, k + 1)

\* the total terrain cost of a path: every cell but the first
PathCost(e, path) == PathCostFrom(e, path, 2)

\* the replay loop stopping one step short: steps i = from .. effective_time - 1
RECURSIVE ReplayUpTo(_, _, _, _)
ReplayUpTo(pattern, pos, i, effective_time) ==
    IF i >= effective_time THEN pos
    ELSE LET d == pattern[(i % Len(pattern)) + 1]
         IN  ReplayUpTo(pattern, <<pos[1] + d[1], pos[2] + d[2]>>, i + 1, effective_time)

\* the replay loop of get_position_at_time: steps i = from .. effective_time
RECURSIVE ReplayFrom(_, _, _, _)
ReplayFrom(pattern, pos, i, effective_time) ==
    IF i > effective_time THEN pos
    ELSE LET d == pattern[(i % Len(pattern)) + 1]
         IN  ReplayFrom(pattern, <<pos[1] + d[1], pos[2] + d[2]>>, i + 1, effective_time)

\* get_position_at_time replaying from the position the obstacle was moved to
get_position_from_current(ob, time) ==
    ReplayFrom(ob.pattern, ob.position, 0, time \div ob.interval)

get_position_at_time(ob, time) ==
    ReplayFrom(ob.pattern, ob.history[1], 0, time \div ob.interval)

is_obstructed(e, x, y, time) ==
    \/ <<x, y>> \in e.static_obstacles
    \/ \E name \in DOMAIN e.dynamic_obstacles :
          get_position_at_time(e.dynamic_obstacles[name], time) = <<x, y>>

MoveDirections == <<UP, DOWN, LEFT, RIGHT>>

\* list of <<new_x, new_y, cost>> in the order UP, DOWN, LEFT, RIGHT
RECURSIVE ValidMovesFrom(_, _, _, _, _)
ValidMovesFrom(e, x, y, time, k) ==
    IF k > Len(MoveDirections) THEN <<>>
    ELSE LET nx == x + MoveDirections[k][1]
             ny == y + MoveDirections[k][2]
             rest == ValidMovesFrom(e, x, y, time, k + 1)
         IN  IF is_within_bounds(e, nx, ny) /\ ~is_obstructed(e, nx, ny, time)
             THEN <<<<nx, ny, get_terrain_cost(e, nx, ny)>>>> \o rest
             ELSE rest

get_valid_moves(e, x, y, time) == ValidMovesFrom(e, x, y, time, 1)

(***************************************************************************)
(* algorithms.py: search nodes and the shared expansion                    *)
(***************************************************************************)
SearchNode(position, time, parent, packages_delivered, cost) ==
    [position |-> position, time |-> time, parent |-> parent,
     packages_delivered |-> packages_delivered, cost |-> cost]

StartNode(start) == SearchNode(start, 0, None, {}, 0)

\* the positions from the node back to the root, as the while loop appends them
RECURSIVE BackLinks(_)
BackLinks(node) ==
    IF IsNone(node.parent) THEN <<node.position>>
    ELSE <<node.position>> \o BackLinks(node.parent[1])

\* reconstruct_path without the final reversal
reconstruct_path_unreversed(node) == BackLinks(node)

reconstruct_path(node) == Reverse(BackLinks(node))

DeliveredAt(e, pos, delivered) ==
    delivered \cup {id \in DOMAIN e.packages : e.packages[id] = pos}

\* get_successors asking for the moves valid at the time of arrival
get_successors_at_arrival(e, node) ==
    LET moves == get_valid_moves(e, node.position[1], node.position[2], node.time + 1)
    IN  [k \in 1..Len(moves) |->
            SearchNode(<<moves[k][1], moves[k][2]>>, node.time + 1, Some(node),
                       DeliveredAt(e, <<moves[k][1], moves[k][2]>>, node.packages_delivered),
                       node.cost + moves[k][3])]

get_successors(e, node) ==
    LET moves == get_valid_moves(e, node.position[1], node.position[2], node.time)
    IN  [k \in 1..Len(moves) |->
            SearchNode(<<moves[k][1], moves[k][2]>>, node.time + 1, Some(node),
                       DeliveredAt(e, <<moves[k][1], moves[k][2]>>, node.packages_delivered),
                       node.cost + moves[k][3])]

(***************************************************************************)
(* heapq on a list of (priority, node) pairs.  The pair order is Python's  *)
(* tuple order: the priorities first and, when they are equal, the nodes,  *)
(* which the dataclass orders by cost alone.                               *)
(***************************************************************************)
EntryLess(a, b) ==
    \/ NumLess(a[1], b[1])
    \/ /\ ~NumLess(b[1], a[1])
       /\ a[2].cost < b[2].cost

RECURSIVE SiftDown(_, _, _, _)
SiftDown(heap, startpos, pos, newitem) ==
    IF pos > startpos /\ EntryLess(newitem, heap[((pos - 1) \div 2) + 1])
    THEN SiftDown([heap EXCEPT ![pos + 1] = heap[((pos - 1) \div 2) + 1]],
                  startpos, (pos - 1) \div 2, newitem)
    ELSE [heap EXCEPT ![pos + 1] = newitem]

RECURSIVE SiftUp(_, _, _, _)
SiftUp(heap, startpos, pos, newitem) ==
    LET endpos == Len(heap)
        childpos == 2 * pos + 1
        rightpos == childpos + 1
        pick == IF rightpos < endpos /\ ~EntryLess(heap[childpos + 1], heap[rightpos + 1])
                THEN rightpos ELSE childpos
    IN  IF childpos < endpos
        THEN SiftUp([heap EXCEPT ![pos + 1] = heap[pick + 1]], startpos, pick, newitem)
        ELSE SiftDown([heap EXCEPT ![pos + 1] = newitem], startpos, pos, newitem)

HeapPush(heap, item) == SiftDown(Append(heap, item), 0, Len(heap), item)

\* a pop that takes the entry pushed last: <<the item, the list left>>
HeapPopNewest(heap) == <<heap[Len(heap)], SubSeq(heap, 1, Len(heap) - 1)>>

\* <<the popped item, the heap left>>
HeapPop(heap) ==
    LET lastelt == heap[Len(heap)]
        rest == SubSeq(heap, 1, Len(heap) - 1)
    IN  IF Len(rest) > 0
        THEN <<rest[1], SiftUp(rest, 0, 0, lastelt)>>
        ELSE <<lastelt, rest>>


(***************************************************************************)
(* algorithms.py: BFS.search.  A search in progress is a record of the     *)
(* call's locals; one Step is one pass of the while loop, the last one     *)
(* sets done and the value returned.                                       *)
(***************************************************************************)
BFSStart(start) ==
    [queue |-> <<StartNode(start)>>, visited |-> {start}, g_costs |-> <<>>,
     nodes_expanded |-> 0, done |-> FALSE, result |-> None]

\* the for loop of BFS.search without visited.add
RECURSIVE BFSEnqueueUnmarked(_, _, _, _)
BFSEnqueueUnmarked(succ, k, queue, visited) ==
    IF k > Len(succ) THEN <<queue, visited>>
    ELSE IF succ[k].position \notin visited
         THEN BFSEnqueueUnmarked(succ, k + 1, Append(queue, succ[k]), visited)
         ELSE BFSEnqueueUnmarked(succ, k + 1, queue, visited)

\* the for loop over the successors: <<queue, visited>> after it
RECURSIVE BFSEnqueue(_, _, _, _)
BFSEnqueue(succ, k, queue, visited) ==
    IF k > Len(succ) THEN <<queue, visited>>
    ELSE IF succ[k].position \notin visited
         THEN BFSEnqueue(succ, k + 1, Append(queue, succ[k]), visited \cup {succ[k].position})
         ELSE BFSEnqueue(succ, k + 1, queue, visited)

\* a pass of BFS.search that takes the newest entry of the queue
BFSStepNewestFirst(e, goal, s) ==
    IF Len(s.queue) = 0
    THEN [s EXCEPT !.done = TRUE, !.result = None]
    ELSE LET current == s.queue[Len(s.queue)]
             rest == SubSeq(s.queue, 1, Len(s.queue) - 1)
             after == BFSEnqueue(get_successors(e, current), 1, rest, s.visited)
         IN  IF current.position = goal
             THEN [s EXCEPT !.queue = rest, !.done = TRUE,
                            !.result = Some(reconstruct_path(current))]
             ELSE [s EXCEPT !.queue = after[1], !.visited = after[2],
                            !.nodes_expanded = @ + 1]

BFSStep(e, goal, s) ==
    IF Len(s.queue) = 0
    THEN [s EXCEPT !.done = TRUE, !.result = None]
    ELSE LET current == Head(s.queue)
             after == BFSEnqueue(get_successors(e, current), 1, Tail(s.queue), s.visited)
         IN  IF current.position = goal
             THEN [s EXCEPT !.queue = Tail(s.queue), !.done = TRUE,
                            !.result = Some(reconstruct_path(current))]
             ELSE [s EXCEPT !.queue = after[1], !.visited = after[2],
                            !.nodes_expanded = @ + 1]

(***************************************************************************)
(* algorithms.py: UniformCostSearch.search                                 *)
(***************************************************************************)
UCSStart(start) ==
    [queue |-> HeapPush(<<>>, <<IntNum(0), StartNode(start)>>), visited |-> {},
     g_costs |-> (start :> 0), nodes_expanded |-> 0, done |-> FALSE, result |-> None]

\* the for loop over the successors: <<frontier, visited_costs>> after it
RECURSIVE UCSPush(_, _, _, _)
UCSPush(succ, k, frontier, visited_costs) ==
    IF k > Len(succ) THEN <<frontier, visited_costs>>
    ELSE IF \/ succ[k].position \notin DOMAIN visited_costs
            \/ succ[k].cost < visited_costs[succ[k].position]
         THEN UCSPush(succ, k + 1,
                      HeapPush(frontier, <<IntNum(succ[k].cost), succ[k]>>),
                      (succ[k].position :> succ[k].cost) @@ visited_costs)
         ELSE UCSPush(succ, k + 1, frontier, visited_costs)

UCSStep(e, goal, s) ==
    IF Len(s.queue) = 0
    THEN [s EXCEPT !.done = TRUE, !.result = None]
    ELSE LET popped == HeapPop(s.queue)
             current_cost == popped[1][1].base
             current == popped[1][2]
             after == UCSPush(get_successors(e, current), 1, popped[2], s.g_costs)
         IN  IF /\ current.position \in DOMAIN s.g_costs
                /\ current_cost > s.g_costs[current.position]
             THEN [s EXCEPT !.queue = popped[2]]
             ELSE IF current.position = goal
                  THEN [s EXCEPT !.queue = popped[2], !.done = TRUE,
                                 !.result = Some(reconstruct_path(current))]
                  ELSE [s EXCEPT !.queue = after[1], !.g_costs = after[2],
                                 !.nodes_expanded = @ + 1]

(***************************************************************************)
(* algorithms.py: AStarSearch                                              *)
(***************************************************************************)
calculate_heuristic(heuristic, pos, goal) ==
    LET dx == pos[1] - goal[1]
        dy == pos[2] - goal[2]
    IN  IF heuristic = "manhattan" THEN IntNum(Abs(dx) + Abs(dy))
        ELSE IF heuristic = "euclidean" THEN [base |-> 0, rad |-> dx * dx + dy * dy]
        ELSE IF heuristic = "chebyshev" THEN IntNum(Max2(Abs(dx), Abs(dy)))
        ELSE IntNum(0)

AStarStart(heuristic, start, goal) ==
    [queue |-> HeapPush(<<>>, <<calculate_heuristic(heuristic, start, goal), StartNode(start)>>),
     visited |-> {}, g_costs |-> (start :> 0), nodes_expanded |-> 0,
     done |-> FALSE, result |-> None]

\* the for loop over the successors: <<frontier, g_costs>> after it
RECURSIVE AStarPush(_, _, _, _, _, _, _, _, _)
AStarPush(e, heuristic, goal, current, visited, succ, k, frontier, g_costs) ==
    IF k > Len(succ) THEN <<frontier, g_costs>>
    ELSE LET pos == succ[k].position
             new_g == current.cost + get_terrain_cost(e, pos[1], pos[2])
             h == calculate_heuristic(heuristic, pos, goal)
             f == [base |-> new_g + h.base, rad |-> h.rad]
         IN  IF pos \in visited
             THEN AStarPush(e, heuristic, goal, current, visited, succ, k + 1, frontier, g_costs)
             ELSE IF pos \notin DOMAIN g_costs \/ new_g < g_costs[pos]
                  THEN AStarPush(e, heuristic, goal, current, visited, succ, k + 1,
                                 HeapPush(frontier, <<f, succ[k]>>),
                                 (pos :> new_g) @@ g_costs)
                  ELSE AStarPush(e, heuristic, goal, current, visited, succ, k + 1,
                                 frontier, g_costs)

AStarStep(e, heuristic, goal, s) ==
    IF Len(s.queue) = 0
    THEN [s EXCEPT !.done = TRUE, !.result = None]
    ELSE LET popped == HeapPop(s.queue)
             current == popped[1][2]
             closed == s.visited \cup {current.position}
             after == AStarPush(e, heuristic, goal, current, closed,
                                get_successors(e, current), 1, popped[2], s.g_costs)
         IN  IF current.position \in s.visited
             THEN [s EXCEPT !.queue = popped[2]]
             ELSE IF current.position = goal
                  THEN [s EXCEPT !.queue = popped[2], !.visited = closed, !.done = TRUE,
                                 !.result = Some(reconstruct_path(current))]
                  ELSE [s EXCEPT !.queue = after[1], !.visited = closed,
                                 !.g_costs = after[2], !.nodes_expanded = @ + 1]

(***************************************************************************)
(* agent.py: find_path picks the strategy; a search call runs its loop to  *)
(* the end.                                                                *)
(***************************************************************************)
SearchStart(algorithm, heuristic, start, goal) ==
    IF algorithm = "bfs" THEN BFSStart(start)
    ELSE IF algorithm = "ucs" THEN UCSStart(start)
    ELSE AStarStart(heuristic, start, goal)

SearchStep(e, algorithm, heuristic, goal, s) ==
    IF algorithm = "bfs" THEN BFSStep(e, goal, s)
    ELSE IF algorithm = "ucs" THEN UCSStep(e, goal, s)
    ELSE AStarStep(e, heuristic, goal, s)

RECURSIVE SearchRun(_, _, _, _, _)
SearchRun(e, algorithm, heuristic, goal, s) ==
    IF s.done THEN s
    ELSE SearchRun(e, algorithm, heuristic, goal, SearchStep(e, algorithm, heuristic, goal, s))

find_path(e, start, goal, algorithm, heuristic) ==
    SearchRun(e, algorithm, heuristic, goal,
              SearchStart(algorithm, heuristic, start, goal)).result

(***************************************************************************)
(* algorithms.py: HillClimbing.  A score is a terrain cost, or Inf for the *)
(* empty path.  The random draws of a call are arguments of the operators, *)
(* so that every outcome is a behaviour of the model.                      *)
(***************************************************************************)
Inf == -1

\* a < b on scores
ScoreLess(a, b) == a # Inf /\ (b = Inf \/ a < b)

\* the for loop of evaluate_path from index i on; the clock starts at 0 on
\* index 1
RECURSIVE HCScoreFrom(_, _, _)
HCScoreFrom(e, path, i) ==
    IF i >= Len(path) THEN 0
    ELSE LET x == path[i + 1][1]
             y == path[i + 1][2]
         IN  get_terrain_cost(e, x, y)
             + (IF is_obstructed(e, x, y, i - 1) THEN ObstaclePenalty ELSE 0)
             + HCScoreFrom(e, path, i + 1)

HillClimbing_evaluate_path(e, path) ==
    IF Len(path) = 0 THEN Inf ELSE HCScoreFrom(e, path, 1)

AlternativeDirections == <<DOWN, RIGHT, UP, LEFT>>

\* the for loop over the four neighbours: <<queue, visited>> after it
RECURSIVE AlternativeEnqueue(_, _, _, _, _, _, _)
AlternativeEnqueue(e, current, path, original_segment, k, queue, visited) ==
    IF k > Len(AlternativeDirections) THEN <<queue, visited>>
    ELSE LET neighbor == <<current[1] + AlternativeDirections[k][1],
                           current[2] + AlternativeDirections[k][2]>>
         IN  IF /\ is_within_bounds(e, neighbor[1], neighbor[2])
                /\ neighbor \notin visited
                /\ ~is_obstructed(e, neighbor[1], neighbor[2], 0)
                /\ neighbor \notin Range(original_segment)
             THEN AlternativeEnqueue(e, current, path, original_segment, k + 1,
                                     Append(queue, <<neighbor, Append(path, neighbor)>>),
                                     visited \cup {neighbor})
             ELSE AlternativeEnqueue(e, current, path, original_segment, k + 1,
                                     queue, visited)

\* the while loop of find_alternative_route
RECURSIVE AlternativeSearch(_, _, _, _, _)
AlternativeSearch(e, end, original_segment, queue, visited) ==
    IF Len(queue) = 0 THEN None
    ELSE LET current == Head(queue)[1]
             path == Head(queue)[2]
             after == AlternativeEnqueue(e, current, path, original_segment, 1,
                                         Tail(queue), visited)
         IN  IF current = end THEN Some(Tail(path))
             ELSE AlternativeSearch(e, end, original_segment, after[1], after[2])

find_alternative_route(e, start, end, original_segment) ==
    AlternativeSearch(e, end, original_segment, <<<<start, <<start>>>>>>, {start})

\* generate_neighbor splicing the alternative segment alone
generate_neighbor_unanchored(e, path, start_idx, span) ==
    IF Len(path) <= 2 THEN path
    ELSE LET end_idx == Min2(start_idx + span, Len(path) - 1)
             alt_segment == find_alternative_route(e, path[start_idx], path[end_idx + 1],
                                                   Slice(path, start_idx, end_idx))
         IN  IF ~IsNone(alt_segment) /\ Len(alt_segment[1]) > 0
             THEN alt_segment[1]
             ELSE path

\* start_idx = random.randint(1, len(path) - 2), span = random.randint(1, 3)
HillClimbing_generate_neighbor(e, path, start_idx, span) ==
    IF Len(path) <= 2 THEN path
    ELSE LET end_idx == Min2(start_idx + span, Len(path) - 1)
             alt_segment == find_alternative_route(e, path[start_idx], path[end_idx + 1],
                                                   Slice(path, start_idx, end_idx))
         IN  IF ~IsNone(alt_segment) /\ Len(alt_segment[1]) > 0
             THEN Slice(path, 0, start_idx) \o alt_segment[1] \o Slice(path, end_idx, Len(path))
             ELSE path

MaxSpan == 3

\* every neighbour the random draws can produce
HillClimbing_neighbors(e, path) ==
    IF Len(path) <= 2 THEN {path}
    ELSE {HillClimbing_generate_neighbor(e, path, start_idx, span) :
             start_idx \in 1..(Len(path) - 2), span \in 1..MaxSpan}

\* the restarts and the iterations per restart explored; the code makes 10
\* restarts of up to 100 iterations
MaxRestarts == 2

MaxIterations == 2

ImprovementCap == 10

\* HillClimbing.search up to its first restart; ended is the record of the
\* scores the restarts ended on
HCStart(caller, start, goal, initial_path) ==
    [algorithm |-> "hc", caller |-> caller, start |-> start, goal |-> goal,
     initial_path |-> initial_path,
     best_path |-> IF IsNone(initial_path) THEN <<>> ELSE initial_path[1],
     best_score |-> Inf, pc |-> "begin", restart |-> 0,
     current_path |-> <<>>, current_score |-> Inf, improvements |-> 0, iteration |-> 0,
     ended |-> <<>>, done |-> FALSE, result |-> <<>>]

\* path or [] for an Optional path
OrEmpty(path) == IF IsNone(path) THEN <<>> ELSE path[1]

\* the locals at the head of a restart that starts from current_path
HCRestarted(s, current_path, current_score) ==
    [s EXCEPT !.pc = "inner", !.current_path = current_path,
              !.current_score = current_score, !.improvements = 0, !.iteration = 0]

\* the end of a restart that keeps the path the restart ended on, better or
\* not
HCRestartEndedAnyway(s, better) ==
    [s EXCEPT !.pc = "restart", !.restart = @ + 1,
              !.ended = Append(@, s.current_score),
              !.best_path = s.current_path,
              !.best_score = s.current_score]

\* the locals at the end of a restart; ended keeps the score each restart
\* ended on
HCRestartEnded(s, better) ==
    [s EXCEPT !.pc = "restart", !.restart = @ + 1,
              !.ended = Append(@, s.current_score),
              !.best_path = IF better THEN s.current_path ELSE @,
              !.best_score = IF better THEN s.current_score ELSE @]

\* HillClimbing.search from where the locals s stand to its next random draw,
\* or to its return
RECURSIVE HCSettle(_, _)
RECURSIVE HCRestart(_, _, _)
HCRestart(e, s, current_path) ==
    HCSettle(e, HCRestarted(s, current_path, HillClimbing_evaluate_path(e, current_path)))

HCSettle(e, s) ==
    IF s.done THEN s
    ELSE IF s.pc = "begin"
    THEN HCSettle(e, [s EXCEPT !.pc = "restart",
                               !.best_score = HillClimbing_evaluate_path(e, s.best_path)])
    ELSE IF s.pc = "restart"
    THEN IF s.restart >= MaxRestarts
         THEN [s EXCEPT !.done = TRUE, !.result = s.best_path]
         ELSE HCRestart(e, s, IF Len(s.best_path) > 0 THEN s.best_path
                              ELSE OrEmpty(find_path(e, s.start, s.goal, "astar", "manhattan")))
    ELSE IF s.iteration >= MaxIterations \/ s.improvements >= ImprovementCap
         THEN HCSettle(e, HCRestartEnded(s, ScoreLess(s.current_score, s.best_score)))
         ELSE s

\* the locals after an iteration of the inner loop that drew neighbor
HCIterated(s, neighbor, neighbor_score, improved, accepted) ==
    [s EXCEPT !.current_path = IF accepted THEN neighbor ELSE @,
              !.current_score = IF accepted THEN neighbor_score ELSE @,
              !.improvements = IF improved THEN @ + 1 ELSE @,
              !.iteration = @ + 1]

HCJudged(s, neighbor, neighbor_score, lucky) ==
    HCIterated(s, neighbor, neighbor_score,
               ScoreLess(neighbor_score, s.current_score),
               ScoreLess(neighbor_score, s.current_score) \/ lucky)

\* one iteration of the inner loop: lucky is random.random() < 0.1
HCIterate(e, s, neighbor, lucky) ==
    HCSettle(e, HCJudged(s, neighbor, HillClimbing_evaluate_path(e, neighbor), lucky))

(***************************************************************************)
(* algorithms.py: SimulatedAnnealing.  The temperature is kept in units of *)
(* 1 / TempScale and cooled by 19/20 = 0.95; it passes below 1 after the   *)
(* same number of coolings as the floating-point temperature of the code.  *)
(***************************************************************************)
initial_temp == 1000

TempScale == 100000

CoolingNumerator == 19

CoolingDenominator == 20

SimulatedAnnealing_evaluate_path(e, path) ==
    IF Len(path) = 0 THEN Inf ELSE PathCost(e, path)

\* a neighbour that leaves out waypoint i instead of swapping it
generate_neighbor_dropping(path, i, j) ==
    IF Len(path) <= 3 THEN path
    ELSE Slice(path, 0, i) \o Slice(path, i + 1, Len(path))

\* i, j = random.sample(range(1, len(path) - 1), 2)
SimulatedAnnealing_generate_neighbor(path, i, j) ==
    IF Len(path) <= 3 THEN path
    ELSE [path EXCEPT ![i + 1] = path[j + 1], ![j + 1] = path[i + 1]]

SimulatedAnnealing_neighbors(path) ==
    IF Len(path) <= 3 THEN {path}
    ELSE {SimulatedAnnealing_generate_neighbor(path, ij[1], ij[2]) :
             ij \in {p \in (1..(Len(path) - 2)) \X (1..(Len(path) - 2)) : p[1] # p[2]}}

\* the while test of SimulatedAnnealing.search, and its return
SASettle(s) ==
    IF s.temperature > TempScale THEN s
    ELSE [s EXCEPT !.done = TRUE, !.result = s.best_path]

\* the locals of SimulatedAnnealing.search before its loop
SALocals(caller, start, goal, initial_path, current_path, current_score) ==
    [algorithm |-> "sa", caller |-> caller, start |-> start, goal |-> goal,
     initial_path |-> initial_path,
     current_path |-> current_path, current_score |-> current_score,
     best_path |-> current_path, best_score |-> current_score,
     temperature |-> initial_temp * TempScale,
     done |-> FALSE, result |-> <<>>]

SAStartFrom(e, caller, start, goal, initial_path, current_path) ==
    SASettle(SALocals(caller, start, goal, initial_path, current_path,
                      SimulatedAnnealing_evaluate_path(e, current_path)))

SAStart(e, caller, start, goal, initial_path) ==
    SAStartFrom(e, caller, start, goal, initial_path,
                IF Len(OrEmpty(initial_path)) > 0 THEN initial_path[1]
                ELSE OrEmpty(find_path(e, start, goal, "astar", "manhattan")))

\* the locals after a pass of the while loop that drew neighbor
SAIterated(s, neighbor, neighbor_score, accepted, improved) ==
    [s EXCEPT !.current_path = IF accepted THEN neighbor ELSE @,
              !.current_score = IF accepted THEN neighbor_score ELSE @,
              !.best_path = IF improved THEN neighbor ELSE @,
              !.best_score = IF improved THEN neighbor_score ELSE @,
              !.temperature = (@ * CoolingNumerator) \div CoolingDenominator]

\* exp((current_score - neighbor_score) / temperature) is 1 for equal finite
\* scores, 0 or nan when a score is infinite, and otherwise a probability
\* for which lucky stands
SAJudged(s, neighbor, neighbor_score, lucky) ==
    SAIterated(s, neighbor, neighbor_score,
               \/ ScoreLess(neighbor_score, s.current_score)
               \/ neighbor_score # Inf /\ neighbor_score = s.current_score
               \/ neighbor_score # Inf /\ ScoreLess(s.current_score, neighbor_score) /\ lucky,
               /\ ScoreLess(neighbor_score, s.current_score)
               /\ ScoreLess(neighbor_score, s.best_score))

\* one pass of the while loop
SAIterate(e, s, neighbor, lucky) ==
    SASettle(SAJudged(s, neighbor, SimulatedAnnealing_evaluate_path(e, neighbor), lucky))

NoRepair == [algorithm |-> "none", done |-> FALSE]

(***************************************************************************)
(* agent.py: DeliveryAgent                                                 *)
(***************************************************************************)
DeliveryAgent(e, fuel_capacity) ==
    [position |-> e.start_position, fuel |-> fuel_capacity, time |-> 0,
     packages_delivered |-> {}, path_history |-> <<e.start_position>>,
     status_log |-> <<>>]

ResetFuel == 1000

reset(e, a) ==
    [a EXCEPT !.position = e.start_position, !.fuel = ResetFuel, !.time = 0,
              !.packages_delivered = {}, !.path_history = <<e.start_position>>,
              !.status_log = <<>>]

DeliveryStatus(e, a) ==
    [packages_delivered |-> a.packages_delivered,
     total_cost |-> PathCost(e, a.path_history),
     total_time |-> a.time,
     path_taken |-> a.path_history]

\* the ids of a set in increasing order
RECURSIVE InOrder(_)
InOrder(S) ==
    IF S = {} THEN <<>>
    ELSE LET least == CHOOSE m \in S : \A n \in S : m <= n
         IN  <<least>> \o InOrder(S \ {least})

\* the truth value of an Optional int: None and 0 are false
Truthy(pkg) == ~IsNone(pkg) /\ pkg[1] # 0

\* the locals nearest_pkg, min_distance and nearest_path of a round
Nearest(nearest_pkg, min_distance, nearest_path) ==
    [nearest_pkg |-> nearest_pkg, min_distance |-> min_distance,
     nearest_path |-> nearest_path]

\* the for loop over the remaining packages, from the k-th on; path is the
\* path found_path returned for the k-th
RECURSIVE NearestFrom(_, _, _, _, _, _, _)
RECURSIVE NearestOf(_, _, _, _, _, _, _, _)
NearestOf(e, current_pos, ids, k, algorithm, heuristic, near, path) ==
    NearestFrom(e, current_pos, ids, k + 1, algorithm, heuristic,
                IF /\ Len(OrEmpty(path)) > 0
                   /\ (near.min_distance = Inf \/ Len(path[1]) < near.min_distance)
                THEN Nearest(Some(ids[k]), Len(path[1]), path[1])
                ELSE near)

NearestFrom(e, current_pos, ids, k, algorithm, heuristic, near) ==
    IF k > Len(ids) THEN near
    ELSE NearestOf(e, current_pos, ids, k, algorithm, heuristic, near,
                   find_path(e, current_pos, e.packages[ids[k]], algorithm, heuristic))

\* the while loop of plan_delivery_route: full_route when it ends
RECURSIVE PlanFrom(_, _, _, _, _, _)
RECURSIVE PlanAfter(_, _, _, _, _, _, _)
PlanAfter(e, current_pos, remaining_packages, full_route, algorithm, heuristic, near) ==
    IF Truthy(near.nearest_pkg) /\ Len(near.nearest_path) > 0
    THEN PlanFrom(e, e.packages[near.nearest_pkg[1]],
                  remaining_packages \ {near.nearest_pkg[1]},
                  full_route \o Tail(near.nearest_path), algorithm, heuristic)
    ELSE full_route

PlanFrom(e, current_pos, remaining_packages, full_route, algorithm, heuristic) ==
    IF remaining_packages = {} THEN full_route
    ELSE PlanAfter(e, current_pos, remaining_packages, full_route, algorithm, heuristic,
                   NearestFrom(e, current_pos, InOrder(remaining_packages), 1,
                               algorithm, heuristic, Nearest(None, Inf, <<>>)))

plan_delivery_route(e, a, algorithm, heuristic) ==
    IF DOMAIN e.packages = {} THEN <<>>
    ELSE <<a.position>> \o PlanFrom(e, a.position,
                                    DOMAIN e.packages \ a.packages_delivered,
                                    <<>>, algorithm, heuristic)

\* replan_route up to the first random draw of the repair: None when it
\* returns None at once, else the locals of the hill-climbing call
replan_route(e, caller, remaining_route) ==
    IF Len(remaining_route) < 2 THEN None
    ELSE Some(HCSettle(e, HCStart(caller, remaining_route[1],
                                  remaining_route[Len(remaining_route)],
                                  Some(remaining_route))))

NoPackage == -1

\* a line printed by execute_route
Printed(msg, pkg, at) == [msg |-> msg, pkg |-> pkg, at |-> at]

\* the packages execute_route marks at next_pos, without the test that the
\* package is not delivered yet
ArrivingAnyway(e, delivered, next_pos) ==
    {pkg_id \in DOMAIN e.packages : e.packages[pkg_id] = next_pos}

\* the packages execute_route marks, and announces, on entering next_pos
Arriving(e, delivered, next_pos) ==
    {pkg_id \in DOMAIN e.packages :
        e.packages[pkg_id] = next_pos /\ pkg_id \notin delivered}

Announce(ids, at) == [k \in 1..Len(ids) |-> Printed("delivered", ids[k], at)]

\* the fuel test of execute_route taken as passed
CanAffordAnything(fuel, move_cost) == TRUE

CanAfford(fuel, move_cost) == fuel >= move_cost

NoFrame == [pc |-> "idle"]

\* the objects execute_route works on
Machine(a, f, r, out) == [agent |-> a, frame |-> f, repair |-> r, console |-> out]

\* the end of execute_route: the status is built, logged and returned
Finish(e, a, out) ==
    Machine([a EXCEPT !.status_log = Append(@, DeliveryStatus(e, a))],
            NoFrame, NoRepair, out)

\* pass i of the for loop found next_pos obstructed and called replan_route
Blocked(e, a, f, out, replanning) ==
    IF IsNone(replanning)
    THEN Finish(e, a, Append(out, Printed("replan_failed", NoPackage, f.next_pos)))
    ELSE Machine(a, [f EXCEPT !.pc = "replan"], replanning[1], out)

\* the head of pass i of the for loop, up to the move or to the repair
LoopHead(e, a, f, i, out) ==
    IF i > Len(f.steps) THEN Finish(e, a, out)
    ELSE IF is_obstructed(e, f.steps[i][1], f.steps[i][2], a.time)
         THEN Blocked(e, a, [f EXCEPT !.i = i, !.next_pos = f.steps[i]],
                      Append(out, Printed("obstacle", NoPackage, f.steps[i])),
                      replan_route(e, "execute_route", Slice(f.route, i - 1, Len(f.route))))
         ELSE Machine(a, [f EXCEPT !.pc = "move", !.i = i, !.next_pos = f.steps[i]],
                      NoRepair, out)

\* the start of execute_route
Entered(e, a, route, max_steps, out) ==
    LoopHead(e, a,
             [pc |-> "loop", route |-> route,
              steps |-> Slice(route, 1, Min2(max_steps + 1, Len(route))),
              i |-> 0, next_pos |-> a.position],
             1, out)

\* the frame once route is the spliced route
Rerouted(f, route) ==
    [f EXCEPT !.pc = "move", !.route = route,
              !.next_pos = IF f.i < Len(route) THEN route[f.i + 1] ELSE f.next_pos]

\* execute_route after replan_route returned new_route
Spliced(e, a, f, out, new_route) ==
    IF Len(new_route) > 0
    THEN Machine(a, Rerouted(f, Slice(f.route, 0, Min2(f.i - 1, Len(f.route))) \o new_route),
                 NoRepair, out)
    ELSE Finish(e, a, Append(out, Printed("replan_failed", NoPackage, f.next_pos)))

\* the move onto next_pos with the clock left alone
SteppedOffTheClock(a, next_pos, move_cost, arriving) ==
    [a EXCEPT !.position = next_pos, !.fuel = @ - move_cost,
              !.path_history = Append(@, next_pos),
              !.packages_delivered = @ \cup arriving]

\* the agent after its move onto next_pos
Stepped(a, next_pos, move_cost, arriving) ==
    [a EXCEPT !.position = next_pos, !.fuel = @ - move_cost, !.time = @ + 1,
              !.path_history = Append(@, next_pos),
              !.packages_delivered = @ \cup arriving]

\* the move of pass i, once its cost and the packages it delivers are known
MovedAt(e, a, f, out, move_cost, arriving) ==
    IF CanAfford(a.fuel, move_cost)
    THEN LoopHead(e, Stepped(a, f.next_pos, move_cost, arriving), f, f.i + 1,
                  out \o Announce(InOrder(arriving), f.next_pos))
    ELSE Finish(e, a, Append(out, Printed("out_of_fuel", NoPackage, f.next_pos)))

\* the move of pass i and the head of the pass after it
Moved(e, a, f, out) ==
    MovedAt(e, a, f, out, get_terrain_cost(e, f.next_pos[1], f.next_pos[2]),
            Arriving(e, a.packages_delivered, f.next_pos))

\* a call made on an object
Call(op, args) == [op |-> op, args |-> args]

\* no agent has been constructed
NoAgent ==
    /\ agent = None
    /\ frame = NoFrame
    /\ repair = NoRepair
    /\ console = <<>>
    /\ calls = <<>>

(***************************************************************************)
(* environment.py: GridEnvironment.__init__, and the populated grids the   *)
(* searches are run on                                                     *)
(***************************************************************************)
CellsOf(w, h) == {<<x, y>> : x \in 0..(w - 1), y \in 0..(h - 1)}

Cells(e) == CellsOf(e.width, e.height)

GridEnvironment(w, h) ==
    [width |-> w, height |-> h, grid |-> [c \in CellsOf(w, h) |-> 1],
     static_obstacles |-> {}, dynamic_obstacles |-> <<>>, packages |-> <<>>,
     start_position |-> <<0, 0>>]

\* bounds of the grids explored
MaxSpecialCells == 3

MaxStatic == 1

SpecialCosts == {0, 2}

UniformCosts == {0, 1, 2}

TerrainSizes == {<<3, 2>>}

UniformSizes == {<<4, 3>>}

SubsetsUpTo(S, n) == {T \in SUBSET S : Cardinality(T) <= n}

\* grids whose cells cost 1 except for a few that are cheaper or dearer
TerrainEnvs ==
    {[GridEnvironment(sz[1], sz[2]) EXCEPT
        !.grid = [c \in CellsOf(sz[1], sz[2]) |-> IF c \in DOMAIN sp THEN sp[c] ELSE 1]] :
     sz \in TerrainSizes,
     sp \in UNION {[T -> SpecialCosts] :
                      T \in UNION {SubsetsUpTo(CellsOf(z[1], z[2]), MaxSpecialCells) :
                                     z \in TerrainSizes}}}

\* grids whose cells all cost the same, with a few static obstacles
UniformEnvs ==
    {[GridEnvironment(sz[1], sz[2]) EXCEPT
        !.grid = [c \in CellsOf(sz[1], sz[2]) |-> u], !.static_obstacles = ob] :
     sz \in UniformSizes, u \in UniformCosts,
     ob \in UNION {SubsetsUpTo(CellsOf(z[1], z[2]), MaxStatic) : z \in UniformSizes}}

\* the grid of test_algorithms.py: 5 x 5, every cell a road
TestGrid == GridEnvironment(5, 5)

TestStart == <<0, 0>>

(***************************************************************************)
(* The searches of one query, run one after the other on the same grid, as *)
(* benchmark_algorithms and the tests do.  A search reads the grid and     *)
(* changes nothing but its own locals, so the order is immaterial.         *)
(***************************************************************************)
Heuristics == <<"manhattan", "euclidean", "chebyshev">>

InitSearch ==
    /\ \E e \in TerrainEnvs \cup UniformEnvs \cup {TestGrid} :
          /\ env = e
          /\ \E s \in Cells(e), g \in Cells(e) :
                /\ e = TestGrid => s = TestStart
                /\ query = [start |-> s, goal |-> g]
    /\ found = <<>>
    /\ run = None
    /\ passes = 0
    /\ setup = env
    /\ NoAgent

BFSCall ==
    /\ "bfs" \notin DOMAIN found
    /\ found' = ("bfs" :> find_path(env, query.start, query.goal, "bfs", "manhattan")) @@ found
    /\ UNCHANGED <<worldVars, query, run, passes, agentVars>>

UCSCall ==
    /\ "bfs" \in DOMAIN found /\ "ucs" \notin DOMAIN found
    /\ found' = ("ucs" :> find_path(env, query.start, query.goal, "ucs", "manhattan")) @@ found
    /\ UNCHANGED <<worldVars, query, run, passes, agentVars>>

AStarCall(k) ==
    /\ "ucs" \in DOMAIN found /\ Heuristics[k] \notin DOMAIN found
    /\ k > 1 => Heuristics[k - 1] \in DOMAIN found
    /\ found' = (Heuristics[k] :>
                    find_path(env, query.start, query.goal, "astar", Heuristics[k])) @@ found
    /\ UNCHANGED <<worldVars, query, run, passes, agentVars>>

NextSearch == BFSCall \/ UCSCall \/ \E k \in 1..Len(Heuristics) : AStarCall(k)

SpecSearch == InitSearch /\ [][NextSearch]_vars

(***************************************************************************)
(* Claims about the exhaustive searches                                    *)
(***************************************************************************)
ObstacleFree(e) == e.static_obstacles = {} /\ DOMAIN e.dynamic_obstacles = {}

StaticOnly(e) == DOMAIN e.dynamic_obstacles = {}

UniformGrid(e) == \A c, d \in Cells(e) : e.grid[c] = e.grid[d]

AllSearched == DOMAIN found = {"bfs", "ucs"} \cup Range(Heuristics)

\* C1: on a grid without obstacles every search (BFS, uniform-cost, A* with
\* each heuristic) returns a non-empty path from the start to the goal.
C1_PathJoinsStartAndGoal ==
    ObstacleFree(env) =>
        \A v \in DOMAIN found :
            /\ ~IsNone(found[v])
            /\ Len(found[v][1]) > 0
            /\ found[v][1][1] = query.start
            /\ found[v][1][Len(found[v][1])] = query.goal

C1_Witness ==
    /\ AllSearched
    /\ ObstacleFree(env)
    /\ ~UniformGrid(env)
    /\ query.start # query.goal
    /\ \A v \in DOMAIN found : Len(found[v][1]) >= 3

\* C2: on a grid with static obstacles only, whenever A* (any of the three
\* heuristics) and uniform-cost both return a path, the A* path costs no
\* more than the uniform-cost path.
C2_AStarNoWorseThanUCS ==
    StaticOnly(env) =>
        \A k \in 1..Len(Heuristics) :
            ( /\ Heuristics[k] \in DOMAIN found
              /\ ~IsNone(found[Heuristics[k]])
              /\ ~IsNone(found["ucs"]) )
            => PathCost(env, found[Heuristics[k]][1]) <= PathCost(env, found["ucs"][1])

\* C3: on a grid whose cells all cost the same, the uniform-cost path and the
\* A* (manhattan) path have as many cells as the BFS path; on the 5 x 5 road
\* grid every search returns 9 cells from (0,0) to (4,4).
C3_UniformGridSameLength ==
    /\ UniformGrid(env) =>
          \A v \in {"ucs", "manhattan"} \cap DOMAIN found :
              ~IsNone(found["bfs"]) =>
                  /\ ~IsNone(found[v])
                  /\ Len(found[v][1]) = Len(found["bfs"][1])
    /\ (env = TestGrid /\ query.start = <<0, 0>> /\ query.goal = <<4, 4>>) =>
          \A v \in DOMAIN found : ~IsNone(found[v]) /\ Len(found[v][1]) = 9

(***************************************************************************)
(* One search call followed pass by pass through its while loop, on grids  *)
(* with static obstacles, with free cells and with a moving obstacle.      *)
(***************************************************************************)
DynamicObstacle(name, start_pos, pattern, interval) ==
    [name |-> name, position |-> start_pos, pattern |-> pattern, interval |-> interval,
     step_count |-> 0, history |-> <<start_pos>>]

MaxEnclosing == 2

MaxFreeCells == 2

MaxInterval == 2

StepSizes == {<<3, 2>>}

ObstaclePatterns == {<<UP>>, <<DOWN>>, <<LEFT>>, <<RIGHT>>, <<STAY>>, <<LEFT, RIGHT>>, <<UP, DOWN>>}

StepEnvs ==
    UNION {
        {[GridEnvironment(sz[1], sz[2]) EXCEPT !.static_obstacles = ob] :
            ob \in SubsetsUpTo(CellsOf(sz[1], sz[2]), MaxEnclosing)}
        \cup
        {[GridEnvironment(sz[1], sz[2]) EXCEPT
            !.grid = [c \in CellsOf(sz[1], sz[2]) |-> IF c \in fr THEN 0 ELSE 1]] :
            fr \in SubsetsUpTo(CellsOf(sz[1], sz[2]), MaxFreeCells)}
        \cup
        {[GridEnvironment(sz[1], sz[2]) EXCEPT
            !.dynamic_obstacles = ("car" :> DynamicObstacle("car", c, pt, iv))] :
            c \in CellsOf(sz[1], sz[2]), pt \in ObstaclePatterns, iv \in 1..MaxInterval}
        : sz \in StepSizes}

Strategies ==
    {[algorithm |-> "bfs", heuristic |-> "manhattan"],
     [algorithm |-> "ucs", heuristic |-> "manhattan"]}
    \cup {[algorithm |-> "astar", heuristic |-> Heuristics[k]] : k \in 1..Len(Heuristics)}

InitSteps ==
    /\ \E e \in StepEnvs, st \in Strategies :
          /\ env = e
          /\ \E s \in Cells(e), g \in Cells(e) :
                /\ query = [start |-> s, goal |-> g,
                            algorithm |-> st.algorithm, heuristic |-> st.heuristic]
                /\ run = SearchStart(st.algorithm, st.heuristic, s, g)
    /\ found = <<>>
    /\ passes = 0
    /\ setup = env
    /\ NoAgent

LoopPass(algorithm) ==
    /\ query.algorithm = algorithm
    /\ ~run.done
    /\ run' = SearchStep(env, algorithm, query.heuristic, query.goal, run)
    /\ passes' = passes + 1
    /\ UNCHANGED <<worldVars, query, found, agentVars>>

BFSPass == LoopPass("bfs")

UCSPass == LoopPass("ucs")

AStarPass == LoopPass("astar")

NextSteps == BFSPass \/ UCSPass \/ AStarPass

SpecSteps == InitSteps /\ [][NextSteps]_vars

\* the cells a walk from start can reach through in-bounds cells that hold no
\* static obstacle, by moves to the four neighbours
RECURSIVE StaticReachFrom(_, _)
StaticReachFrom(e, seen) ==
    LET more == {c \in Cells(e) \ (seen \cup e.static_obstacles) :
                    \E d \in seen : Abs(c[1] - d[1]) + Abs(c[2] - d[2]) = 1}
    IN  IF more = {} THEN seen ELSE StaticReachFrom(e, seen \cup more)

StaticReach(e, start) == StaticReachFrom(e, {start})

\* every pass pops one entry, and an entry is pushed at most once per move
\* into each cell
PassBound(e) == 4 * Cardinality(Cells(e)) + 2

\* C10: every search ends (its loop makes a bounded number of passes before
\* it returns), and what it returns when the frontier runs out, as it does
\* when the goal cannot be reached, is None, never a partial path.
C10_EndsWithPathOrNone ==
    /\ passes <= PassBound(env)
    /\ run.done =>
          /\ query.goal \notin StaticReach(env, query.start) => IsNone(run.result)
          /\ ~IsNone(run.result) =>
                /\ Len(run.result[1]) > 0
                /\ run.result[1][1] = query.start
                /\ run.result[1][Len(run.result[1])] = query.goal
          /\ IsNone(run.result) => Len(run.queue) = 0

C10_Witness ==
    /\ run.done
    /\ IsNone(run.result)
    /\ env.static_obstacles # {}
    /\ query.goal \notin env.static_obstacles
    /\ query.goal \notin StaticReach(env, query.start)
    /\ passes > 2

(***************************************************************************)
(* The agent and the repair driven by their callers: execute_route and     *)
(* reset called on an agent, as test_agent.py does, and the repair called  *)
(* on a route, as test_algorithms.py does.  An execute_route call is       *)
(* followed move by move, a repair random draw by random draw.             *)
(***************************************************************************)
MaxRouteLen == 3

MaxCalls == 2

MaxPathLen == 4

AgentSizes == {<<3, 2>>}

AgentCosts == {0, 3}

FuelCapacities == {2, 1000}

StepLimits == {2, 1000}

PackageLayouts == {(0 :> <<1, 0>>) @@ (1 :> <<1, 1>>)}

\* the grids an agent is run on: a dearer or free cell, a static obstacle or
\* a moving one
AgentEnvs ==
    UNION {
        {[GridEnvironment(sz[1], sz[2]) EXCEPT !.packages = pk] : pk \in PackageLayouts}
        \cup
        {[GridEnvironment(sz[1], sz[2]) EXCEPT
            !.packages = pk,
            !.grid = [c \in CellsOf(sz[1], sz[2]) |-> IF c = sp THEN u ELSE 1]] :
            pk \in PackageLayouts, sp \in CellsOf(sz[1], sz[2]), u \in AgentCosts}
        \cup
        {[GridEnvironment(sz[1], sz[2]) EXCEPT !.packages = pk, !.static_obstacles = {ob}] :
            pk \in PackageLayouts, ob \in CellsOf(sz[1], sz[2])}
        \cup
        {[GridEnvironment(sz[1], sz[2]) EXCEPT
            !.packages = pk,
            !.dynamic_obstacles = ("car" :> DynamicObstacle("car", c, pt, iv))] :
            pk \in PackageLayouts, c \in CellsOf(sz[1], sz[2]),
            pt \in ObstaclePatterns, iv \in 1..MaxInterval}
        : sz \in AgentSizes}

\* the grids the repair is called on directly
RepairEnvs ==
    UNION {
        {[GridEnvironment(sz[1], sz[2]) EXCEPT !.static_obstacles = ob] :
            ob \in SubsetsUpTo(CellsOf(sz[1], sz[2]), MaxStatic)}
        : sz \in AgentSizes}

Neighbours(e, c) == {d \in Cells(e) : Abs(c[1] - d[1]) + Abs(c[2] - d[2]) = 1}

\* the walks of up to longest cells from a cell, through obstacles or not,
\* and the empty route
Routes(e, c, longest) ==
    {<<>>} \cup
    {p \in UNION {[1..n -> Cells(e)] : n \in 1..longest} :
        /\ p[1] = c
        /\ \A k \in 1..(Len(p) - 1) : p[k + 1] \in Neighbours(e, p[k])}

RepairMethods == {"HillClimbing.search", "SimulatedAnnealing.search", "replan_route"}

RepairQueries(e) ==
    {[method |-> m, start |-> e.start_position, goal |-> g, initial_path |-> None] :
        m \in RepairMethods \ {"replan_route"}, g \in Cells(e)}
    \cup
    {[method |-> m,
      start |-> IF Len(p) > 0 THEN p[1] ELSE e.start_position,
      goal |-> IF Len(p) > 0 THEN p[Len(p)] ELSE e.start_position,
      initial_path |-> Some(p)] :
        m \in RepairMethods, p \in Routes(e, e.start_position, MaxPathLen)}

AgentQuery == [method |-> "execute_route"]

DefaultFuel == 1000

InitAgent ==
    /\ \/ \E e \in AgentEnvs, fuel_capacity \in FuelCapacities :
             /\ env = e
             /\ query = AgentQuery
             /\ agent = DeliveryAgent(e, fuel_capacity)
             /\ calls = <<Call("__init__", <<fuel_capacity>>)>>
       \/ \E e \in RepairEnvs :
             /\ env = e
             /\ query \in RepairQueries(e)
             /\ agent = DeliveryAgent(e, DefaultFuel)
             /\ calls = <<Call("__init__", <<DefaultFuel>>)>>
    /\ setup = env
    /\ found = <<>>
    /\ run = None
    /\ passes = 0
    /\ frame = NoFrame
    /\ repair = NoRepair
    /\ console = <<>>

\* no call is in progress
Idle == frame.pc = "idle" /\ (repair.algorithm = "none" \/ repair.done)

Become(m) ==
    /\ agent' = m.agent
    /\ frame' = m.frame
    /\ repair' = m.repair
    /\ console' = m.console

ExecuteRouteCall ==
    /\ query.method = "execute_route"
    /\ Idle
    /\ Len(calls) <= MaxCalls
    /\ \E route \in Routes(env, agent.position, MaxRouteLen), max_steps \in StepLimits :
          /\ Become(Entered(env, agent, route, max_steps, console))
          /\ calls' = Append(calls, Call("execute_route", <<route, max_steps>>))
    /\ UNCHANGED <<worldVars, searchVars>>

ExecuteRouteMove ==
    /\ frame.pc = "move"
    /\ Become(Moved(env, agent, frame, console))
    /\ UNCHANGED <<worldVars, searchVars, calls>>

ResetCall ==
    /\ query.method = "execute_route"
    /\ Idle
    /\ Len(calls) <= MaxCalls
    /\ agent' = reset(env, agent)
    /\ calls' = Append(calls, Call("reset", <<>>))
    /\ UNCHANGED <<worldVars, searchVars, frame, repair, console>>

HillClimbingCall ==
    /\ query.method = "HillClimbing.search"
    /\ Idle
    /\ Len(calls) = 1
    /\ repair' = HCSettle(env, HCStart(query.method, query.start, query.goal, query.initial_path))
    /\ found' = IF repair'.done THEN (query.method :> Some(repair'.result)) ELSE found
    /\ calls' = Append(calls, Call(query.method, <<query.start, query.goal, query.initial_path>>))
    /\ UNCHANGED <<worldVars, query, run, passes, agent, frame, console>>

SimulatedAnnealingCall ==
    /\ query.method = "SimulatedAnnealing.search"
    /\ Idle
    /\ Len(calls) = 1
    /\ repair' = SAStart(env, query.method, query.start, query.goal, query.initial_path)
    /\ found' = IF repair'.done THEN (query.method :> Some(repair'.result)) ELSE found
    /\ calls' = Append(calls, Call(query.method, <<query.start, query.goal, query.initial_path>>))
    /\ UNCHANGED <<worldVars, query, run, passes, agent, frame, console>>

ReplanRouteCall ==
    /\ query.method = "replan_route"
    /\ Idle
    /\ Len(calls) = 1
    /\ \E replanning \in {replan_route(env, query.method, query.initial_path[1])} :
          IF IsNone(replanning)
          THEN found' = (query.method :> None) /\ UNCHANGED repair
          ELSE repair' = replanning[1] /\ UNCHANGED found
    /\ calls' = Append(calls, Call(query.method, <<query.initial_path[1]>>))
    /\ UNCHANGED <<worldVars, query, run, passes, agent, frame, console>>

\* the repair returns new_path to its caller
RepairReturn(after) ==
    IF after.caller = "execute_route"
    THEN /\ Become(Spliced(env, agent, frame, console, after.result))
         /\ UNCHANGED found
    ELSE /\ repair' = after
         /\ found' = (after.caller :> Some(after.result)) @@ found
         /\ UNCHANGED <<agent, frame, console>>

\* one iteration of hill climbing; when it was the last one, the return to
\* the caller, or from replan_route the fall-back on simulated annealing
HillClimbingPass ==
    /\ repair.algorithm = "hc"
    /\ ~repair.done
    /\ \E after \in {HCIterate(env, repair, neighbor, lucky) :
                        neighbor \in HillClimbing_neighbors(env, repair.current_path),
                        lucky \in BOOLEAN} :
          IF ~after.done
          THEN repair' = after /\ UNCHANGED <<found, agent, frame, console>>
          ELSE IF /\ after.caller \in {"execute_route", "replan_route"}
                  /\ Len(after.result) = 0
               THEN /\ repair' = SAStart(env, after.caller, after.start, after.goal,
                                         after.initial_path)
                    /\ UNCHANGED <<found, agent, frame, console>>
               ELSE RepairReturn(after)
    /\ UNCHANGED <<worldVars, query, run, passes, calls>>

SimulatedAnnealingPass ==
    /\ repair.algorithm = "sa"
    /\ ~repair.done
    /\ \E after \in {SAIterate(env, repair, neighbor, lucky) :
                        neighbor \in SimulatedAnnealing_neighbors(repair.current_path),
                        lucky \in BOOLEAN} :
          IF ~after.done
          THEN repair' = after /\ UNCHANGED <<found, agent, frame, console>>
          ELSE RepairReturn(after)
    /\ UNCHANGED <<worldVars, query, run, passes, calls>>

NextAgent ==
    \/ ExecuteRouteCall
    \/ ExecuteRouteMove
    \/ ResetCall
    \/ HillClimbingCall
    \/ SimulatedAnnealingCall
    \/ ReplanRouteCall
    \/ HillClimbingPass
    \/ SimulatedAnnealingPass

SpecAgent == InitAgent /\ [][NextAgent]_vars

(***************************************************************************)
(* Claims about execute_route, reset and the repair                        *)
(***************************************************************************)
Last(s) == s[Len(s)]

\* the fuel the agent was constructed with
fuel_capacity == calls[1].args[1]

NoReset == \A k \in 1..Len(calls) : calls[k].op # "reset"

Printouts(msg) == {k \in 1..Len(console) : console[k].msg = msg}

\* the step under way is a call of reset
Resetting == calls' # calls /\ Last(calls').op = "reset"

\* the move execute_route is about to make costs more than the fuel left
Unaffordable ==
    /\ frame.pc = "move"
    /\ get_terrain_cost(env, frame.next_pos[1], frame.next_pos[2]) > agent.fuel

\* C4: the fuel of the agent is never negative, and a move that costs more
\* than the fuel left is refused: execute_route returns at once, the status
\* logged, and position, fuel, time, delivered set and realized path are as
\* they were before the refused move.
C4_FuelNeverOverdrawn ==
    /\ [](agent.fuel >= 0)
    /\ [][Unaffordable =>
            /\ frame'.pc = "idle"
            /\ agent'.position = agent.position
            /\ agent'.fuel = agent.fuel
            /\ agent'.time = agent.time
            /\ agent'.path_history = agent.path_history
            /\ agent'.packages_delivered = agent.packages_delivered
            /\ Len(agent'.status_log) = Len(agent.status_log) + 1
            /\ Last(console').msg = "out_of_fuel"]_vars

C4_Witness ==
    /\ Idle
    /\ Len(console) > 0
    /\ Last(console).msg = "out_of_fuel"
    /\ agent.fuel > 0
    /\ Len(agent.path_history) > 1
    /\ Len(agent.path_history) < Len(Last(calls).args[1])

\* C5: from each state to the next, unless the step is a reset, the
\* delivered set only grows, the fuel does not increase and the time does not
\* decrease; and as long as no reset was called no package is announced
\* delivered twice, whatever the number of times its cell is entered.
C5_DeliveredFuelTimeMonotone ==
    /\ [][~Resetting =>
            /\ agent.packages_delivered \subseteq agent'.packages_delivered
            /\ agent'.fuel <= agent.fuel
            /\ agent'.time >= agent.time]_vars
    /\ [](NoReset =>
            \A j, k \in Printouts("delivered") :
                console[j].pkg = console[k].pkg => j = k)

C5_Witness ==
    /\ NoReset
    /\ Len(agent.status_log) = 2
    /\ \E pkg_id \in agent.packages_delivered :
          Cardinality({k \in 2..Len(agent.path_history) :
                          agent.path_history[k] = env.packages[pkg_id]}) >= 2

\* C7: a repair called on a route of at least 2 cells (HillClimbing.search,
\* SimulatedAnnealing.search with the route as initial path from its first
\* cell to its last, or replan_route) returns None or a non-empty list from
\* the first cell of the route to its last, whatever the random draws.
C7_RepairKeepsEndpoints ==
    \A m \in DOMAIN found \cap RepairMethods :
        Len(OrEmpty(query.initial_path)) >= 2 =>
            \/ IsNone(found[m])
            \/ /\ Len(found[m][1]) > 0
               /\ found[m][1][1] = query.initial_path[1][1]
               /\ Last(found[m][1]) = Last(query.initial_path[1])

C7_Witness ==
    /\ "HillClimbing.search" \in DOMAIN found
    /\ Len(OrEmpty(query.initial_path)) >= 3
    /\ Range(query.initial_path[1]) \cap env.static_obstacles # {}
    /\ found["HillClimbing.search"][1] # query.initial_path[1]
    /\ Range(found["HillClimbing.search"][1]) \cap env.static_obstacles = {}

\* C8: on an agent that was not reset, the time is the number of cells of
\* the realized path minus one and the cost of the realized path is the fuel
\* spent; every status logged reports that time and that cost for its path,
\* and the status a call returns is that of the agent when it returns.  A
\* first call on a non-empty route from the agent's cell, met with no
\* obstruction, with fuel for all of it and max_steps for all of it, returns
\* the route as the path taken.
C8_StatusAccountsForPath ==
    NoReset =>
        /\ agent.time = Len(agent.path_history) - 1
        /\ PathCost(env, agent.path_history) = fuel_capacity - agent.fuel
        /\ \A k \in 1..Len(agent.status_log) :
              /\ agent.status_log[k].total_time = Len(agent.status_log[k].path_taken) - 1
              /\ agent.status_log[k].total_cost = PathCost(env, agent.status_log[k].path_taken)
        /\ (Idle /\ Len(agent.status_log) > 0) =>
              /\ Last(agent.status_log).path_taken = agent.path_history
              /\ Last(agent.status_log).total_time = agent.time
              /\ Last(agent.status_log).total_cost = fuel_capacity - agent.fuel
              /\ Last(agent.status_log).packages_delivered = agent.packages_delivered
        /\ ( /\ Idle
             /\ Len(calls) = 2
             /\ Last(calls).op = "execute_route"
             /\ Len(Last(calls).args[1]) > 0
             /\ Printouts("obstacle") = {}
             /\ PathCost(env, Last(calls).args[1]) <= fuel_capacity
             /\ Last(calls).args[2] >= Len(Last(calls).args[1]) - 1 ) =>
              /\ Last(agent.status_log).path_taken = Last(calls).args[1]
              /\ Last(agent.status_log).total_time = Len(Last(calls).args[1]) - 1

C8_Witness ==
    /\ Idle
    /\ NoReset
    /\ Len(agent.status_log) = 2
    /\ Printouts("obstacle") # {}
    /\ Len(agent.path_history) >= 4
    /\ agent.fuel < fuel_capacity

\* C9: right after a call of reset the agent is as it was constructed:
\* at the start position, with the fuel it was constructed with, time 0,
\* nothing delivered and a realized path of the start position alone.
C9_ResetRestoresConstruction ==
    (Len(calls) > 1 /\ Last(calls).op = "reset") =>
        /\ agent.position = env.start_position
        /\ agent.fuel = fuel_capacity
        /\ agent.time = 0
        /\ agent.packages_delivered = {}
        /\ agent.path_history = <<env.start_position>>

\* execute_route is about to move the agent onto frame.next_pos
Stepping == frame.pc = "move" /\ ~Unaffordable

\* C13: the cell the agent enters at a step i of execute_route is cell i of
\* the route it continues on, which after a successful repair is the spliced
\* route: at the step of the repair and at every later step of the call.
C13_ContinuesOnSplicedRoute ==
    Stepping =>
        /\ frame.i < Len(frame.route)
        /\ frame.next_pos = frame.route[frame.i + 1]

\* C19: every cell the agent steps onto is not blocked, by is_obstructed, at
\* the time the agent holds just before the step, the step that follows a
\* successful repair included.
C19_NeverStepsOntoBlockedCell ==
    Stepping => ~is_obstructed(env, frame.next_pos[1], frame.next_pos[2], agent.time)

\* C17: whatever the random draws, the score of the best path of
\* HillClimbing.search is not greater than the score of the initial path it
\* was given nor than the score any restart ended on, and the path the search
\* returns is that best path.
C17_ReturnsBestOfRestarts ==
    repair.algorithm = "hc" =>
        /\ ~ScoreLess(HillClimbing_evaluate_path(env, OrEmpty(repair.initial_path)),
                      repair.best_score)
        /\ \A k \in 1..Len(repair.ended) : ~ScoreLess(repair.ended[k], repair.best_score)
        /\ HillClimbing_evaluate_path(env, repair.best_path) = repair.best_score
        /\ repair.done =>
              /\ repair.result = repair.best_path
              /\ Len(repair.ended) = MaxRestarts
              /\ repair.caller = "HillClimbing.search" =>
                    found["HillClimbing.search"] = Some(repair.result)

C17_Witness ==
    /\ repair.algorithm = "hc"
    /\ repair.done
    /\ ScoreLess(repair.best_score,
                 HillClimbing_evaluate_path(env, OrEmpty(repair.initial_path)))
    /\ \E k \in 1..Len(repair.ended) : ScoreLess(repair.best_score, repair.ended[k])

MaxMoves == 2

MaxTime == 3

ObstacleSizes == {<<3, 2>>}

ObstacleEnvs ==
    UNION {
        {[GridEnvironment(sz[1], sz[2]) EXCEPT
            !.static_obstacles = ob,
            !.dynamic_obstacles = ("car" :> DynamicObstacle("car", c, pt, iv))] :
            ob \in SubsetsUpTo(CellsOf(sz[1], sz[2]), MaxStatic),
            c \in CellsOf(sz[1], sz[2]), pt \in ObstaclePatterns, iv \in 1..MaxInterval}
        : sz \in ObstacleSizes}

\* move taking a pattern step at every call, whatever the interval
move_every_call(ob, time) ==
    [ob EXCEPT
        !.position = <<@[1] + ob.pattern[(time % Len(ob.pattern)) + 1][1],
                       @[2] + ob.pattern[(time % Len(ob.pattern)) + 1][2]>>,
        !.history = Append(@,
             <<ob.position[1] + ob.pattern[(time % Len(ob.pattern)) + 1][1],
               ob.position[2] + ob.pattern[(time % Len(ob.pattern)) + 1][2]>>)]

move(ob, time) ==
    IF time % ob.interval = 0
    THEN [ob EXCEPT
            !.position = <<@[1] + ob.pattern[((time \div ob.interval) % Len(ob.pattern)) + 1][1],
                           @[2] + ob.pattern[((time \div ob.interval) % Len(ob.pattern)) + 1][2]>>,
            !.history = Append(@,
                 <<ob.position[1] + ob.pattern[((time \div ob.interval) % Len(ob.pattern)) + 1][1],
                   ob.position[2] + ob.pattern[((time \div ob.interval) % Len(ob.pattern)) + 1][2]>>)]
    ELSE ob

InitObstacle ==
    /\ env \in ObstacleEnvs
    /\ setup = env
    /\ query = None
    /\ found = <<>>
    /\ run = None
    /\ passes = 0
    /\ NoAgent

MoveCall ==
    /\ Len(calls) < MaxMoves
    /\ \E name \in DOMAIN env.dynamic_obstacles, time \in 0..MaxTime :
          /\ env' = [env EXCEPT !.dynamic_obstacles[name] = move(@, time)]
          /\ calls' = Append(calls, Call("move", <<name, time>>))
    /\ UNCHANGED <<setup, searchVars, agent, frame, repair, console>>

NextObstacle == MoveCall

SpecObstacle == InitObstacle /\ [][NextObstacle]_vars

\* the cells of the grid and the ring of cells around it
ProbeCells(e) == {<<x, y>> : x \in (-1)..e.width, y \in (-1)..e.height}

\* C6: whatever moves were made on the obstacles, is_obstructed answers as
\* it does on the grid as configured; a static obstacle cell is blocked at
\* every time, and a cell that is no static obstacle and where the
\* configuration predicts no moving obstacle at a time is not blocked then.
C6_ObstructionFollowsSetup ==
    \A c \in ProbeCells(setup), t \in 0..MaxTime :
        /\ is_obstructed(env, c[1], c[2], t) = is_obstructed(setup, c[1], c[2], t)
        /\ c \in setup.static_obstacles => is_obstructed(env, c[1], c[2], t)
        /\ ( /\ c \notin setup.static_obstacles
             /\ \A name \in DOMAIN setup.dynamic_obstacles :
                   get_position_at_time(setup.dynamic_obstacles[name], t) # c )
           => ~is_obstructed(env, c[1], c[2], t)

C6_Witness ==
    /\ Len(calls) = MaxMoves
    /\ \E name \in DOMAIN env.dynamic_obstacles :
          /\ env.dynamic_obstacles[name].position # setup.dynamic_obstacles[name].position
          /\ Len(env.dynamic_obstacles[name].history) > 2
          /\ \E c \in Cells(env) \ env.static_obstacles, t \in 0..MaxTime :
                is_obstructed(env, c[1], c[2], t)

(***************************************************************************)
(* agent.py: plan_delivery_route called on a freshly constructed agent, as *)
(* test_agent.py and main.py do, on grids with static obstacles only.      *)
(***************************************************************************)
MaxPackages == 2

PackageIds == {0, 1, 2}

PlanSizes == {<<3, 2>>}

PlanEnvs ==
    UNION {
        {[GridEnvironment(sz[1], sz[2]) EXCEPT !.static_obstacles = ob, !.packages = pk] :
            ob \in SubsetsUpTo(CellsOf(sz[1], sz[2]), MaxStatic),
            pk \in UNION {[T -> CellsOf(sz[1], sz[2])] :
                             T \in SubsetsUpTo(PackageIds, MaxPackages)}}
        : sz \in PlanSizes}

PlanQuery == [method |-> "plan_delivery_route"]

InitPlan ==
    /\ env \in PlanEnvs
    /\ setup = env
    /\ query = PlanQuery
    /\ found = <<>>
    /\ run = None
    /\ passes = 0
    /\ agent = DeliveryAgent(env, DefaultFuel)
    /\ frame = NoFrame
    /\ repair = NoRepair
    /\ console = <<>>
    /\ calls = <<Call("__init__", <<DefaultFuel>>)>>

PlanCall ==
    /\ query.method = "plan_delivery_route"
    /\ Len(calls) = 1
    /\ \E st \in Strategies :
          /\ found' = (query.method :>
                          plan_delivery_route(env, agent, st.algorithm, st.heuristic))
          /\ calls' = Append(calls, Call(query.method, <<st.algorithm, st.heuristic>>))
    /\ UNCHANGED <<worldVars, query, run, passes, agent, frame, repair, console>>

NextPlan == PlanCall

SpecPlan == InitPlan /\ [][NextPlan]_vars

\* plan_delivery_route has returned
Planned == "plan_delivery_route" \in DOMAIN found

\* C11: on a grid with static obstacles only where the destination of every
\* package can be reached from the agent's position, the route that
\* plan_delivery_route returns contains the destination of every package,
\* whatever the ids of the packages.
C11_RouteVisitsEveryGoal ==
    ( /\ Planned
      /\ StaticOnly(env)
      /\ \A id \in DOMAIN env.packages :
            env.packages[id] \in StaticReach(env, agent.position) )
    => \A id \in DOMAIN env.packages :
          env.packages[id] \in Range(found["plan_delivery_route"])

\* the routes a greedy construction can assemble from the cursor: each round
\* takes a remaining goal whose search path has the fewest cells, appends the
\* path without its first cell and moves the cursor to the goal
RECURSIVE GreedyRoutes(_, _, _, _, _)
GreedyRoutes(e, cursor, remaining, algorithm, heuristic) ==
    LET legs == [id \in remaining |->
                    find_path(e, cursor, e.packages[id], algorithm, heuristic)]
        reach == {id \in remaining : ~IsNone(legs[id])}
        best == {id \in reach : \A o \in reach : Len(legs[id][1]) <= Len(legs[o][1])}
    IN  IF reach = {} THEN {<<>>}
        ELSE UNION {{Tail(legs[id][1]) \o r :
                        r \in GreedyRoutes(e, e.packages[id], remaining \ {id},
                                           algorithm, heuristic)} : id \in best}

\* C12: the route plan_delivery_route returns is non-empty, starts at the
\* agent's position and is the position followed by the legs of a greedy
\* construction: round after round a remaining goal with the fewest cells on
\* its search path from the cursor, the path less its first cell.
C12_RouteIsGreedy ==
    Planned =>
        /\ Len(found["plan_delivery_route"]) > 0
        /\ found["plan_delivery_route"][1] = agent.position
        /\ Tail(found["plan_delivery_route"]) \in
              GreedyRoutes(env, agent.position,
                           DOMAIN env.packages \ agent.packages_delivered,
                           Last(calls).args[1], Last(calls).args[2])

(***************************************************************************)
(* environment.py: a moving obstacle advanced tick after tick from time 0, *)
(* move(0), move(1), ... in order on the obstacle as constructed.          *)
(***************************************************************************)
MaxTicks == 6

InitTicks == InitObstacle

TickCall ==
    /\ Len(calls) < MaxTicks
    /\ \E name \in DOMAIN env.dynamic_obstacles :
          /\ env' = [env EXCEPT !.dynamic_obstacles[name] = move(@, Len(calls))]
          /\ calls' = Append(calls, Call("move", <<name, Len(calls)>>))
    /\ UNCHANGED <<setup, searchVars, agent, frame, repair, console>>

NextTicks == TickCall

SpecTicks == InitTicks /\ [][NextTicks]_vars

\* C14: after move(0), move(1), ..., move(t) called in order on an obstacle
\* as constructed, the position it stores is the position
\* get_position_at_time(t) predicts by replay from time 0.
C14_MoveAgreesWithReplay ==
    \A name \in DOMAIN env.dynamic_obstacles :
        Len(calls) > 0 =>
            env.dynamic_obstacles[name].position =
                get_position_at_time(env.dynamic_obstacles[name], Len(calls) - 1)

C14_Witness ==
    /\ Len(calls) >= 3
    /\ \E name \in DOMAIN env.dynamic_obstacles :
          /\ env.dynamic_obstacles[name].interval = 2
          /\ Len(env.dynamic_obstacles[name].pattern) = 2
          /\ env.dynamic_obstacles[name].position # env.dynamic_obstacles[name].history[1]
          /\ Len(env.dynamic_obstacles[name].history) < Len(calls) + 1

\* the periods tried for a prediction
MaxPeriod == 4

\* C18: the position predicted for an obstacle is a periodic function of
\* time: for some period P > 0, get_position_at_time(t + P) is
\* get_position_at_time(t) at every time t.
C18_PredictionIsPeriodic ==
    \A name \in DOMAIN setup.dynamic_obstacles :
        \E P \in 1..MaxPeriod :
            \A t \in 0..MaxTime :
                get_position_at_time(setup.dynamic_obstacles[name], t + P)
                    = get_position_at_time(setup.dynamic_obstacles[name], t)

(***************************************************************************)
(* Claims about the paths of BFS and of uniform-cost search on grids with  *)
(* static obstacles only                                                   *)
(***************************************************************************)
\* the least number of moves from the cells seen, reached in n moves, to the
\* goal through cells that hold no static obstacle; Inf when there is none
RECURSIVE StaticDistanceFrom(_, _, _, _)
StaticDistanceFrom(e, seen, goal, n) ==
    LET more == {c \in Cells(e) \ (seen \cup e.static_obstacles) :
                    \E d \in seen : Abs(c[1] - d[1]) + Abs(c[2] - d[2]) = 1}
    IN  IF goal \in seen THEN n
        ELSE IF more = {} THEN Inf
        ELSE StaticDistanceFrom(e, seen \cup more, goal, n + 1)

StaticDistance(e, start, goal) == StaticDistanceFrom(e, {start}, goal, 0)

\* path is a walk on the grid: each cell after the first is a neighbour of
\* the cell before it, in bounds and no static obstacle
StaticWalk(e, path) ==
    \A k \in 2..Len(path) :
        /\ path[k] \in Cells(e) \ e.static_obstacles
        /\ Abs(path[k][1] - path[k - 1][1]) + Abs(path[k][2] - path[k - 1][2]) = 1

\* C15: on a grid with static obstacles only BFS.search returns None exactly
\* when no walk through obstacle-free cells joins the start to the goal, and
\* otherwise such a walk from the start to the goal with the least number of
\* moves.
C15_BFSFewestMoves ==
    (StaticOnly(env) /\ "bfs" \in DOMAIN found) =>
        IF StaticDistance(env, query.start, query.goal) = Inf
        THEN IsNone(found["bfs"])
        ELSE /\ ~IsNone(found["bfs"])
             /\ found["bfs"][1][1] = query.start
             /\ Last(found["bfs"][1]) = query.goal
             /\ StaticWalk(env, found["bfs"][1])
             /\ Len(found["bfs"][1]) - 1 = StaticDistance(env, query.start, query.goal)

C15_Witness ==
    /\ "bfs" \in DOMAIN found
    /\ ~IsNone(found["bfs"])
    /\ env.static_obstacles # {}
    /\ Len(found["bfs"][1]) - 1
          > Abs(query.start[1] - query.goal[1]) + Abs(query.start[2] - query.goal[2])

\* the grids uniform-cost search is followed on: mixed terrain, free cells,
\* static obstacles
UCSEnvs == TerrainEnvs \cup {e \in StepEnvs : StaticOnly(e)}

InitUniformCost ==
    /\ \E e \in UCSEnvs :
          /\ env = e
          /\ \E s \in Cells(e), g \in Cells(e) :
                /\ query = [start |-> s, goal |-> g,
                            algorithm |-> "ucs", heuristic |-> "manhattan"]
                /\ run = SearchStart("ucs", "manhattan", s, g)
    /\ found = <<>>
    /\ passes = 0
    /\ setup = env
    /\ NoAgent

NextUniformCost == UCSPass

SpecUniformCost == InitUniformCost /\ [][NextUniformCost]_vars

\* the least element of a set of costs, Inf for the empty set
MinOf(S) == IF S = {} THEN Inf ELSE CHOOSE m \in S : \A n \in S : m <= n

\* the costs of the cheapest walks known, after one more round of moves
Relaxed(e, dist) ==
    [c \in Cells(e) |->
        MinOf(({dist[c]} \ {Inf}) \cup
              (IF c \in e.static_obstacles THEN {}
               ELSE {dist[d] + e.grid[c] : d \in {n \in Neighbours(e, c) : dist[n] # Inf}}))]

RECURSIVE CheapestFrom(_, _)
CheapestFrom(e, dist) ==
    IF Relaxed(e, dist) = dist THEN dist ELSE CheapestFrom(e, Relaxed(e, dist))

\* the least terrain cost of a walk from start to goal through cells that
\* hold no static obstacle; Inf when there is none
CheapestCost(e, start, goal) ==
    CheapestFrom(e, [c \in Cells(e) |-> IF c = start THEN 0 ELSE Inf])[goal]

\* the entry the next pass pops costs more than the best cost known for its
\* cell
Stale ==
    /\ ~run.done
    /\ Len(run.queue) > 0
    /\ run.queue[1][2].position \in DOMAIN run.g_costs
    /\ run.queue[1][1].base > run.g_costs[run.queue[1][2].position]

\* C16: on a grid with static obstacles only, the entries uniform-cost search
\* pops come in non-decreasing cost; an entry dearer than the best cost known
\* for its cell is dropped without being expanded; and the search returns
\* None when no walk joins the start to the goal, and otherwise a walk from
\* the start to the goal of the least total terrain cost.
C16_UCSCheapestPath ==
    /\ [][(Len(run.queue) > 0 /\ Len(run'.queue) > 0)
            => run'.queue[1][1].base >= run.queue[1][1].base]_vars
    /\ [][Stale => /\ run'.g_costs = run.g_costs
                   /\ run'.nodes_expanded = run.nodes_expanded
                   /\ Len(run'.queue) = Len(run.queue) - 1
                   /\ ~run'.done]_vars
    /\ [](run.done =>
            IF CheapestCost(env, query.start, query.goal) = Inf
            THEN IsNone(run.result)
            ELSE /\ ~IsNone(run.result)
                 /\ run.result[1][1] = query.start
                 /\ Last(run.result[1]) = query.goal
                 /\ StaticWalk(env, run.result[1])
                 /\ PathCost(env, run.result[1])
                       = CheapestCost(env, query.start, query.goal))

C16_Witness ==
    /\ run.done
    /\ ~IsNone(run.result)
    /\ passes > 3
    /\ Len(run.result[1]) - 1 > StaticDistance(env, query.start, query.goal)


(***************************************************************************)
(* The paths the three searches return, on grids with static obstacles and *)
(* on grids with a moving obstacle: SpecSteps.                             *)
(***************************************************************************)
\* the move from path[k] to path[k + 1], made at search time k - 1 (the
\* start cell, path[1], is at time 0), is a move get_valid_moves allows
TimeValidMove(e, path, k) ==
    /\ is_within_bounds(e, path[k + 1][1], path[k + 1][2])
    /\ Abs(path[k + 1][1] - path[k][1]) + Abs(path[k + 1][2] - path[k][2]) = 1
    /\ path[k + 1] \notin e.static_obstacles
    /\ \A name \in DOMAIN e.dynamic_obstacles :
          get_position_at_time(e.dynamic_obstacles[name], k - 1) # path[k + 1]

\* C21: every path BFS, UniformCostSearch or AStarSearch returns is
\* time-valid: each cell after the first is an in-bounds 4-neighbour of the
\* cell before it (never the same cell, never a diagonal one), is no static
\* obstacle, and is not where a moving obstacle is predicted at the time the
\* move is made, the search time being 0 at the start cell.
C21_PathsAreTimeValid ==
    (run.done /\ ~IsNone(run.result)) =>
        \A k \in 1..(Len(run.result[1]) - 1) : TimeValidMove(env, run.result[1], k)

\* a path of three cells or more is returned on a grid with a moving
\* obstacle, through a cell the obstacle is predicted in at another time
C21_Witness ==
    /\ run.done
    /\ ~IsNone(run.result)
    /\ Len(run.result[1]) >= 3
    /\ \E name \in DOMAIN env.dynamic_obstacles :
          \E k \in 1..(Len(run.result[1]) - 1), t \in 0..Len(run.result[1]) :
             /\ t # k - 1
             /\ get_position_at_time(env.dynamic_obstacles[name], t) = run.result[1][k + 1]


(***************************************************************************)
(* The prediction of a moving obstacle in closed form, on the grids of     *)
(* SpecObstacle, whatever moves were made on the obstacle since.           *)
(***************************************************************************)
\* the sum of the first n directions of the pattern, n <= Len(pattern)
RECURSIVE PrefixSum(_, _)
PrefixSum(pattern, n) ==
    IF n = 0 THEN <<0, 0>>
    ELSE <<PrefixSum(pattern, n - 1)[1] + pattern[n][1],
           PrefixSum(pattern, n - 1)[2] + pattern[n][2]>>

\* the sum of the first n directions of the pattern taken cyclically: the
\* whole pattern n \div Len times, then its first n % Len directions
CyclicSum(pattern, n) ==
    <<(n \div Len(pattern)) * PrefixSum(pattern, Len(pattern))[1]
          + PrefixSum(pattern, n % Len(pattern))[1],
      (n \div Len(pattern)) * PrefixSum(pattern, Len(pattern))[2]
          + PrefixSum(pattern, n % Len(pattern))[2]>>

Displaced(pos, by) == <<pos[1] + by[1], pos[2] + by[2]>>

\* C22: get_position_at_time(t) is the obstacle's starting position
\* displaced by the sum of the first t \div interval + 1 directions of its
\* pattern, taken cyclically; so at time 0 the obstacle is predicted one
\* pattern step away from its starting position and, unless that step is
\* STAY, its starting cell is not reported blocked by it at time 0.
C22_PredictionIsCyclicSum ==
    \A name \in DOMAIN env.dynamic_obstacles :
        /\ \A t \in 0..MaxTime :
              get_position_at_time(env.dynamic_obstacles[name], t)
                 = Displaced(env.dynamic_obstacles[name].history[1],
                             CyclicSum(env.dynamic_obstacles[name].pattern,
                                       (t \div env.dynamic_obstacles[name].interval) + 1))
        /\ get_position_at_time(env.dynamic_obstacles[name], 0)
              = Displaced(env.dynamic_obstacles[name].history[1],
                          env.dynamic_obstacles[name].pattern[1])
        /\ env.dynamic_obstacles[name].pattern[1] # STAY =>
              /\ get_position_at_time(env.dynamic_obstacles[name], 0)
                    # env.dynamic_obstacles[name].history[1]
              /\ ( /\ env.dynamic_obstacles[name].history[1] \notin env.static_obstacles
                   /\ \A other \in DOMAIN env.dynamic_obstacles \ {name} :
                         get_position_at_time(env.dynamic_obstacles[other], 0)
                            # env.dynamic_obstacles[name].history[1] )
                 => ~is_obstructed(env, env.dynamic_obstacles[name].history[1][1],
                                   env.dynamic_obstacles[name].history[1][2], 0)

\* an obstacle with a two-direction pattern and interval 2 that was moved
\* off its starting cell: the cell is free at time 0 and, the pattern having
\* come round, predicted blocked again at time 2
C22_Witness ==
    /\ Len(calls) > 0
    /\ \E name \in DOMAIN env.dynamic_obstacles :
          /\ Len(env.dynamic_obstacles[name].pattern) = 2
          /\ env.dynamic_obstacles[name].interval = 2
          /\ env.dynamic_obstacles[name].position # env.dynamic_obstacles[name].history[1]
          /\ env.dynamic_obstacles[name].history[1] \in Cells(env) \ env.static_obstacles
          /\ ~is_obstructed(env, env.dynamic_obstacles[name].history[1][1],
                            env.dynamic_obstacles[name].history[1][2], 0)
          /\ is_obstructed(env, env.dynamic_obstacles[name].history[1][1],
                           env.dynamic_obstacles[name].history[1][2], 2)

=============================================================================
